---- MODULE Spec2Model ----
(***************************************************************************)
(* Closed-form integrals of the product Matern-3/2 kernel                  *)
(* (emukit/quadrature/kernels/quadrature_matern32.py).                     *)
(*                                                                         *)
(* Numbers.  Coordinates, bounds and lengthscales are fixed-point numbers  *)
(* with Scale units to 1.0; the three one-dimensional closed forms are     *)
(* evaluated in that fixed point (sqrt and exp included).  A value that    *)
(* the engine multiplies (a factor, the variance, an accumulator, an       *)
(* entry of a returned array) is an exact fraction <<n, d>>, so a product  *)
(* records every factor that went into it.  Floating-point rounding of the *)
(* products is below this model.                                           *)
(*                                                                         *)
(* Arrays.  A 2-D array is a sequence of rows, a 1-D array a sequence.     *)
(* Python's 0-based dimension index dim addresses element dim + 1.         *)
(***************************************************************************)
EXTENDS Integers, Sequences, FiniteSets, TLC

\* ------------------------------------------------------------- bounds
MaxD == 2
MaxN == 2
MaxCalls == 2

\* ------------------------------------------------------------ numbers
Scale == 10 * 10

Fix(n) == n * Scale
FMul(u, v) == (u * v) \div Scale
FDiv(u, v) == (u * Scale) \div v

ISqrt(n) == CHOOSE r \in 0..n : r * r <= n /\ n < (r + 1) * (r + 1)
Sqrt(u) == ISqrt(u * Scale)

ExpTerms == 4 * 4

RECURSIVE ExpSeries(_, _, _)
ExpSeries(z, k, term) ==
    IF k > ExpTerms \/ term = 0 THEN 0
    ELSE term + ExpSeries(z, k + 1, FMul(term, z) \div k)

Exp(z) == IF z >= 0 THEN ExpSeries(z, 1, Scale)
          ELSE FDiv(Scale, ExpSeries(-z, 1, Scale))

\* exact fractions
Frac(u) == <<u, Scale>>
Mul(p, q) == <<p[1] * q[1], p[2] * q[2]>>
One == <<1, 1>>
Zero == <<0, 1>>

\* ------------------------------------------- one dimensional integrals
\* s3 = np.sqrt(3.0)
s3 == Sqrt(Fix(3))

_qK_1d_elem(x, domain, ell) ==
    LET a == domain[1]
        b == domain[2]
        first_term == FDiv(4 * ell, s3)
        second_term == -FMul(Exp(FDiv(FMul(s3, x - b), ell)),
                             b + FDiv(2 * ell, s3) - x)
        third_term == -FMul(Exp(FDiv(FMul(s3, a - x), ell)),
                            x + FDiv(2 * ell, s3) - a)
    IN  Frac(first_term + second_term + third_term)

_qK_1d(x, domain, ell) == [i \in 1..Len(x) |-> _qK_1d_elem(x[i], domain, ell)]

_qKq_1d(domain, ell) ==
    LET a == domain[1]
        b == domain[2]
        r == b - a
        c == FMul(s3, r)
        qKq_ == FMul(FDiv(2 * ell, Fix(3)),
                     2 * c - 3 * ell + FMul(Exp(FDiv(-c, ell)), c + 3 * ell))
    IN  Frac(qKq_)

_dqK_dx_1d_elem(x, domain, ell) ==
    LET a == domain[1]
        b == domain[2]
        exp_term_b == Exp(FDiv(FMul(s3, x - b), ell))
        exp_term_a == Exp(FDiv(FMul(s3, a - x), ell))
        first_term == FMul(exp_term_b, -Scale + FMul(FDiv(s3, ell), x - b))
        second_term == FMul(exp_term_a, Scale - FMul(FDiv(s3, ell), a - x))
    IN  Frac(first_term + second_term)

_dqK_dx_1d(x, domain, ell) ==
    [i \in 1..Len(x) |-> _dqK_dx_1d_elem(x[i], domain, ell)]

\* ------------------------------------------------------ array helpers
Rows(m) == Len(m)
Cols(m) == Len(m[1])
Shape(m) == <<Rows(m), Cols(m)>>

\* x2[:, dim]
col(m, dim) == [i \in 1..Rows(m) |-> m[i][dim + 1]]

\* np.ones(n), np.zeros([r, c])
ones(n) == [i \in 1..n |-> One]

zeros(r, c) == [i \in 1..r |-> [j \in 1..c |-> Zero]]

\* m.T
T(m) == [j \in 1..Cols(m) |-> [i \in 1..Rows(m) |-> m[i][j]]]

\* faulty variant: the .T is left out
untransposed(m) == m

\* faulty variant: a recomputed transpose with the entries in another order
reversed_T(m) == [j \in 1..Cols(m) |-> [i \in 1..Rows(m) |-> m[i][Cols(m) + 1 - j]]]

\* self.qK(x1).T
Kq_value(m) == T(m)

\* self.dqK_dx(x1).T
dKq_dx_value(m) == T(m)

\* qK *= factor (elementwise)
imul(acc, factor) == [i \in 1..Len(acc) |-> Mul(acc[i], factor[i])]

\* faulty variant: the variance is left out
qK_unscaled(acc, var) == << acc >>

\* qK[None, :] * self.variance
qK_scaled(acc, var) == << [i \in 1..Len(acc) |-> Mul(acc[i], var)] >>

\* grad_term * self.qK(x2, skip=[dim])[0, :]
dqK_row(grad, qKval) == [i \in 1..Len(grad) |-> Mul(grad[i], qKval[1][i])]

\* faulty variant: the variance is left out
qKq_unscaled(var, acc) == acc

\* self.variance * qKq
qKq_scaled(var, acc) == Mul(var, acc)

\* the skip argument: None, or a list of dimension indexes
None == [given |-> FALSE, list |-> <<>>]
Some(l) == [given |-> TRUE, list |-> l]

\* if skip is None: skip = []
skip_or_default(s) == IF s.given THEN s.list ELSE <<>>

\* faulty variant: 1-based skip indexes
in_skip_off_by_one(d, sk) == \E k \in 1..Len(sk) : sk[k] = d + 1

\* dim in skip
in_skip(d, sk) == \E k \in 1..Len(sk) : sk[k] = d

\* faulty variant: dqK_dx forgets to skip its own dimension
skip_nothing(d) == <<>>

\* skip=[dim], the list dqK_dx hands to qK
skip_for(d) == <<d>>

\* seq[dim] of a Python list or array raises IndexError unless 0 <= dim < len
index_ok(seq, d) == d < Len(seq)

\* faulty variant: the primitive shifts x in place (x -= b)
view_after_inplace(x, domain, ell) == [i \in 1..Len(x) |-> x[i] - domain[2]]

\* x - b and a - x allocate: the view x2[:, dim] handed to a 1-D primitive
\* holds the same numbers when the primitive returns
view_after_qK_1d(x, domain, ell) == x

view_after_dqK_dx_1d(x, domain, ell) == x

setcol(m, dim, c) == [i \in 1..Rows(m) |-> [m[i] EXCEPT ![dim + 1] = c[i]]]

\* ------------------------------------------------------------ classes
Base == "QuadratureMatern32"
Lebesgue == "QuadratureProductMatern32LebesgueMeasure"

\* faulty variant: the Lebesgue class does not override qKq
Implemented_without_qKq(c, method) ==
    CASE method \in {"Kq", "dKq_dx"} -> TRUE
      [] method \in {"qK", "dqK_dx"} -> c = Lebesgue
      [] method = "qKq" -> FALSE

\* the methods a class defines with a body other than raise NotImplementedError
Implemented(c, method) ==
    CASE method \in {"Kq", "dKq_dx"} -> TRUE
      [] method \in {"qK", "qKq", "dqK_dx"} -> c = Lebesgue

\* ------------------------------------------------------------- inputs
Threads == 1..MaxCalls

Grid(n, c, s, p) ==
    [i \in 1..n |-> [d \in 1..c |-> 50 * ((s + p * i + d) % 4)]]

BoundsChoices(D) ==
    {[d \in 1..D |-> <<0, 100 + 100 * ((d + k) % 2)>>] : k \in 0..1}

LengthscaleChoices(D) ==
    {[d \in 1..D |-> 100 + 100 * (((d \div 2) + j) % 2)] : j \in 0..1}

VarianceChoices == {<<2, 1>>, <<3, 2>>}

AllDims(c) == [k \in 1..c |-> k - 1]

\* the skip lists of at most c dimensions: none, one, or all of them
SkipLists(c) ==
    {<<>>} \cup {<<d>> : d \in 0..(c - 1)} \cup {AllDims(k) : k \in 1..c}

\* -------------------------------------------------------------- state
VARIABLES
    cls, bounds, lengthscales, variance,   \* the engine: class, integral_bounds.bounds, kern
    threads, pool, skipLists,              \* the callers, the arrays and the skip lists they pass
    pc, op, x2, skipArg,                   \* per call: position, entry method, arguments
    skip, dim, gdim, grad_term,            \* per call: locals of qK / qKq / dqK_dx
    qK, qKq, dqK_dx,                       \* per call: the accumulators
    ret, err                               \* per call: returned value, raised exception

engine == <<cls, bounds, lengthscales, variance>>
env == <<threads, pool, skipLists>>
callargs == <<op, x2, skipArg>>
locals == <<skip, dim, gdim, grad_term>>
accs == <<qK, qKq, dqK_dx>>
vars == <<engine, env, pc, callargs, locals, accs, ret, err>>

\* self.input_dim: the number of bound pairs
input_dim == Len(bounds)

\* faulty variant: one accumulator kept on the engine
Shared(t) == 1

\* the accumulators are locals of the call: each call has its own
Local(t) == t

NoValue == <<>>

TypeDefault ==
    /\ pc = [t \in Threads |-> "idle"]
    /\ op = [t \in Threads |-> ""]
    /\ x2 = [t \in Threads |-> NoValue]
    /\ skipArg = [t \in Threads |-> None]
    /\ skip = [t \in Threads |-> <<>>]
    /\ dim = [t \in Threads |-> 0]
    /\ gdim = [t \in Threads |-> 0]
    /\ grad_term = [t \in Threads |-> NoValue]
    /\ qK = [t \in Threads |-> NoValue]
    /\ qKq = [t \in Threads |-> NoValue]
    /\ dqK_dx = [t \in Threads |-> NoValue]
    /\ ret = [t \in Threads |-> NoValue]
    /\ err = [t \in Threads |-> ""]

\* one caller at a time, any engine, any array
Init ==
    /\ cls \in {Base, Lebesgue}
    /\ \E D \in 1..MaxD :
          /\ bounds \in BoundsChoices(D)
          /\ lengthscales \in LengthscaleChoices(D)
    /\ variance \in VarianceChoices
    /\ threads = {1}
    /\ pool = {Grid(n, c, s, p) : n \in 1..MaxN, c \in 1..(MaxD + 1),
                                  s \in 0..3, p \in 0..1}
    /\ skipLists = SkipLists(MaxD + 1)
    /\ TypeDefault

\* several callers of one engine, all passing the same valid array
InitConc ==
    /\ cls \in {Base, Lebesgue}
    /\ bounds = [d \in 1..MaxD |-> <<0, 100 + 100 * (d % 2)>>]
    /\ lengthscales = [d \in 1..MaxD |-> 100 + 100 * ((d \div 2) % 2)]
    /\ variance = <<3, 2>>
    /\ threads = Threads
    /\ pool = {Grid(MaxN, MaxD, 1, 1)}
    /\ skipLists = {<<d>> : d \in 0..(MaxD - 1)}
    /\ TypeDefault

\* ------------------------------------------------------------ actions
raise(t, e) ==
    /\ pc' = [pc EXCEPT ![t] = "raised"]
    /\ err' = [err EXCEPT ![t] = e]
    /\ skip' = [skip EXCEPT ![t] = <<>>]
    /\ dim' = [dim EXCEPT ![t] = 0]
    /\ gdim' = [gdim EXCEPT ![t] = 0]
    /\ grad_term' = [grad_term EXCEPT ![t] = NoValue]
    /\ qK' = [qK EXCEPT ![Local(t)] = NoValue]
    /\ qKq' = [qKq EXCEPT ![Local(t)] = NoValue]
    /\ dqK_dx' = [dqK_dx EXCEPT ![Local(t)] = NoValue]
    /\ UNCHANGED ret

return(t, v) ==
    /\ pc' = [pc EXCEPT ![t] = "returned"]
    /\ ret' = [ret EXCEPT ![t] = v]
    /\ skip' = [skip EXCEPT ![t] = <<>>]
    /\ dim' = [dim EXCEPT ![t] = 0]
    /\ gdim' = [gdim EXCEPT ![t] = 0]
    /\ grad_term' = [grad_term EXCEPT ![t] = NoValue]
    /\ qK' = [qK EXCEPT ![Local(t)] = NoValue]
    /\ qKq' = [qKq EXCEPT ![Local(t)] = NoValue]
    /\ dqK_dx' = [dqK_dx EXCEPT ![Local(t)] = NoValue]
    /\ UNCHANGED err

\* entry of Lebesgue.qK: skip defaulted, qK = np.ones(x2.shape[0]), dim = 0
qK_enter(t, points, sk) ==
    /\ pc' = [pc EXCEPT ![t] = "qK_loop"]
    /\ skip' = [skip EXCEPT ![t] = sk]
    /\ dim' = [dim EXCEPT ![t] = 0]
    /\ qK' = [qK EXCEPT ![Local(t)] = ones(Rows(points))]

\* entry of Lebesgue.dqK_dx: dqK_dx = np.zeros([input_dim, x2.shape[0]])
dqK_dx_enter(t, points) ==
    /\ pc' = [pc EXCEPT ![t] = "dqK_dx_loop"]
    /\ gdim' = [gdim EXCEPT ![t] = 0]
    /\ dqK_dx' = [dqK_dx EXCEPT ![Local(t)] = zeros(Cols(points), Rows(points))]

\* a caller calls engine.qK(points) or engine.qK(points, skip)
qK_call(t) ==
    /\ t \in threads /\ pc[t] = "idle"
    /\ \E points \in pool : \E s \in {None} \cup {Some(l) : l \in skipLists} :
          /\ op' = [op EXCEPT ![t] = "qK"]
          /\ x2' = [x2 EXCEPT ![t] = points]
          /\ skipArg' = [skipArg EXCEPT ![t] = s]
          /\ IF Implemented(cls, "qK")
             THEN /\ qK_enter(t, points, skip_or_default(s))
                  /\ UNCHANGED <<gdim, grad_term, qKq, dqK_dx, ret, err>>
             ELSE raise(t, "NotImplementedError")
    /\ UNCHANGED <<engine, env>>

\* a caller calls engine.Kq(points): self.qK(x1).T
Kq_call(t) ==
    /\ t \in threads /\ pc[t] = "idle"
    /\ \E points \in pool :
          /\ op' = [op EXCEPT ![t] = "Kq"]
          /\ x2' = [x2 EXCEPT ![t] = points]
          /\ IF Implemented(cls, "qK")
             THEN /\ qK_enter(t, points, skip_or_default(None))
                  /\ UNCHANGED <<gdim, grad_term, qKq, dqK_dx, ret, err>>
             ELSE raise(t, "NotImplementedError")
    /\ UNCHANGED <<engine, env, skipArg>>

\* a caller calls engine.qKq()
qKq_call(t) ==
    /\ t \in threads /\ pc[t] = "idle"
    /\ op' = [op EXCEPT ![t] = "qKq"]
    /\ IF Implemented(cls, "qKq")
       THEN /\ pc' = [pc EXCEPT ![t] = "qKq_loop"]
            /\ qKq' = [qKq EXCEPT ![Local(t)] = One]
            /\ dim' = [dim EXCEPT ![t] = 0]
            /\ UNCHANGED <<skip, gdim, grad_term, qK, dqK_dx, ret, err>>
       ELSE raise(t, "NotImplementedError")
    /\ UNCHANGED <<engine, env, x2, skipArg>>

\* a caller calls engine.dqK_dx(points)
dqK_dx_call(t) ==
    /\ t \in threads /\ pc[t] = "idle"
    /\ \E points \in pool :
          /\ op' = [op EXCEPT ![t] = "dqK_dx"]
          /\ x2' = [x2 EXCEPT ![t] = points]
          /\ IF Implemented(cls, "dqK_dx")
             THEN /\ dqK_dx_enter(t, points)
                  /\ UNCHANGED <<skip, dim, grad_term, qK, qKq, ret, err>>
             ELSE raise(t, "NotImplementedError")
    /\ UNCHANGED <<engine, env, skipArg>>

\* a caller calls engine.dKq_dx(points): self.dqK_dx(x1).T
dKq_dx_call(t) ==
    /\ t \in threads /\ pc[t] = "idle"
    /\ \E points \in pool :
          /\ op' = [op EXCEPT ![t] = "dKq_dx"]
          /\ x2' = [x2 EXCEPT ![t] = points]
          /\ IF Implemented(cls, "dqK_dx")
             THEN /\ dqK_dx_enter(t, points)
                  /\ UNCHANGED <<skip, dim, grad_term, qK, qKq, ret, err>>
             ELSE raise(t, "NotImplementedError")
    /\ UNCHANGED <<engine, env, skipArg>>

\* one iteration of qK's loop over range(x2.shape[1])
qK_loop(t) ==
    /\ pc[t] = "qK_loop" /\ dim[t] < Cols(x2[t])
    /\ IF in_skip(dim[t], skip[t])
       THEN /\ dim' = [dim EXCEPT ![t] = @ + 1]
            /\ UNCHANGED <<pc, x2, skip, gdim, grad_term, accs, ret, err>>
       ELSE IF ~(index_ok(bounds, dim[t]) /\ index_ok(lengthscales, dim[t]))
       THEN raise(t, "IndexError") /\ UNCHANGED x2
       ELSE LET x == col(x2[t], dim[t])
                domain == bounds[dim[t] + 1]
                ell == lengthscales[dim[t] + 1]
            IN  /\ qK' = [qK EXCEPT ![Local(t)] = imul(@, _qK_1d(x, domain, ell))]
                /\ x2' = [x2 EXCEPT ![t] =
                            setcol(@, dim[t], view_after_qK_1d(x, domain, ell))]
                /\ dim' = [dim EXCEPT ![t] = @ + 1]
                /\ UNCHANGED <<pc, skip, gdim, grad_term, qKq, dqK_dx, ret, err>>
    /\ UNCHANGED <<engine, env, op, skipArg>>

\* qK's return, and what its caller does with the value: qK's own caller
\* receives it, Kq transposes it, dqK_dx stores row dim and goes on
qK_return(t) ==
    /\ pc[t] = "qK_loop" /\ dim[t] = Cols(x2[t])
    /\ LET val == qK_scaled(qK[Local(t)], variance)
       IN  CASE op[t] = "qK" -> return(t, val)
             [] op[t] = "Kq" -> return(t, Kq_value(val))
             [] op[t] \in {"dqK_dx", "dKq_dx"} ->
                  /\ dqK_dx' = [dqK_dx EXCEPT ![Local(t)] =
                                  [@ EXCEPT ![gdim[t] + 1] = dqK_row(grad_term[t], val)]]
                  /\ gdim' = [gdim EXCEPT ![t] = @ + 1]
                  /\ pc' = [pc EXCEPT ![t] = "dqK_dx_loop"]
                  /\ skip' = [skip EXCEPT ![t] = <<>>]
                  /\ dim' = [dim EXCEPT ![t] = 0]
                  /\ grad_term' = [grad_term EXCEPT ![t] = NoValue]
                  /\ qK' = [qK EXCEPT ![Local(t)] = NoValue]
                  /\ UNCHANGED <<qKq, ret, err>>
    /\ UNCHANGED <<engine, env, callargs>>

\* one iteration of qKq's loop over range(self.input_dim)
qKq_loop(t) ==
    /\ pc[t] = "qKq_loop" /\ dim[t] < input_dim
    /\ IF ~(index_ok(bounds, dim[t]) /\ index_ok(lengthscales, dim[t]))
       THEN raise(t, "IndexError")
       ELSE /\ qKq' = [qKq EXCEPT ![Local(t)] =
                         Mul(@, _qKq_1d(bounds[dim[t] + 1], lengthscales[dim[t] + 1]))]
            /\ dim' = [dim EXCEPT ![t] = @ + 1]
            /\ UNCHANGED <<pc, skip, gdim, grad_term, qK, dqK_dx, ret, err>>
    /\ UNCHANGED <<engine, env, callargs>>

qKq_return(t) ==
    /\ pc[t] = "qKq_loop" /\ dim[t] = input_dim
    /\ return(t, qKq_scaled(variance, qKq[Local(t)]))
    /\ UNCHANGED <<engine, env, callargs>>

\* one iteration of dqK_dx's loop, up to its call of self.qK(x2, skip=[dim])
dqK_dx_loop(t) ==
    /\ pc[t] = "dqK_dx_loop" /\ gdim[t] < Cols(x2[t])
    /\ IF ~(index_ok(bounds, gdim[t]) /\ index_ok(lengthscales, gdim[t]))
       THEN raise(t, "IndexError") /\ UNCHANGED x2
       ELSE LET x == col(x2[t], gdim[t])
                domain == bounds[gdim[t] + 1]
                ell == lengthscales[gdim[t] + 1]
            IN  /\ grad_term' = [grad_term EXCEPT ![t] = _dqK_dx_1d(x, domain, ell)]
                /\ x2' = [x2 EXCEPT ![t] =
                            setcol(@, gdim[t], view_after_dqK_dx_1d(x, domain, ell))]
                /\ qK_enter(t, x2[t], skip_for(gdim[t]))
                /\ UNCHANGED <<gdim, qKq, dqK_dx, ret, err>>
    /\ UNCHANGED <<engine, env, op, skipArg>>

\* dqK_dx's return; dKq_dx transposes it
dqK_dx_return(t) ==
    /\ pc[t] = "dqK_dx_loop" /\ gdim[t] = Cols(x2[t])
    /\ IF op[t] = "dqK_dx"
       THEN return(t, dqK_dx[Local(t)])
       ELSE return(t, dKq_dx_value(dqK_dx[Local(t)]))
    /\ UNCHANGED <<engine, env, callargs>>

\* the caller takes the value or the exception and is ready to call again
Collect(t) ==
    /\ pc[t] \in {"returned", "raised"}
    /\ pc' = [pc EXCEPT ![t] = "idle"]
    /\ op' = [op EXCEPT ![t] = ""]
    /\ x2' = [x2 EXCEPT ![t] = NoValue]
    /\ skipArg' = [skipArg EXCEPT ![t] = None]
    /\ ret' = [ret EXCEPT ![t] = NoValue]
    /\ err' = [err EXCEPT ![t] = ""]
    /\ UNCHANGED <<engine, env, locals, accs>>

Next ==
    \E t \in Threads :
        \/ qK_call(t)
        \/ Kq_call(t)
        \/ qKq_call(t)
        \/ dqK_dx_call(t)
        \/ dKq_dx_call(t)
        \/ qK_loop(t)
        \/ qK_return(t)
        \/ qKq_loop(t)
        \/ qKq_return(t)
        \/ dqK_dx_loop(t)
        \/ dqK_dx_return(t)
        \/ Collect(t)

Spec == Init /\ [][Next]_vars

SpecConc == InitConc /\ [][Next]_vars

\* ----------------------------------------------------------- run alone
\* What a call returns when nothing else runs between its steps: the loops
\* of qK, qKq and dqK_dx taken in one go.
RECURSIVE qK_alone_from(_, _, _, _)
qK_alone_from(points, sk, d, acc) ==
    IF d = Cols(points) THEN qK_scaled(acc, variance)
    ELSE IF in_skip(d, sk) THEN qK_alone_from(points, sk, d + 1, acc)
    ELSE qK_alone_from(points, sk, d + 1,
             imul(acc, _qK_1d(col(points, d), bounds[d + 1], lengthscales[d + 1])))

qK_alone(points, s) ==
    qK_alone_from(points, skip_or_default(s), 0, ones(Rows(points)))

RECURSIVE qKq_alone_from(_, _)
qKq_alone_from(d, acc) ==
    IF d = input_dim THEN qKq_scaled(variance, acc)
    ELSE qKq_alone_from(d + 1, Mul(acc, _qKq_1d(bounds[d + 1], lengthscales[d + 1])))

qKq_alone == qKq_alone_from(0, One)

dqK_dx_alone(points) ==
    [g \in 1..Cols(points) |->
        dqK_row(_dqK_dx_1d(col(points, g - 1), bounds[g], lengthscales[g]),
                qK_alone(points, Some(skip_for(g - 1))))]

\* ------------------------------------------------------------- claims
RECURSIVE ProdSeq(_)
ProdSeq(s) == IF s = <<>> THEN One ELSE Mul(s[1], ProdSeq(Tail(s)))

Returned(t, method) == pc[t] = "returned" /\ op[t] = method

\* the columns of the call's points are the engine's dimensions
ValidPoints(t) == Cols(x2[t]) = input_dim /\ Len(lengthscales) = input_dim

\* the 1-D factor of dimension d (0-based) at point i
Factor(points, i, d) ==
    _qK_1d(<<points[i][d + 1]>>, bounds[d + 1], lengthscales[d + 1])[1]

GradFactor(points, i, d) ==
    _dqK_dx_1d(<<points[i][d + 1]>>, bounds[d + 1], lengthscales[d + 1])[1]

\* the product of the factors of every dimension but those in skipped
ProductExcept(points, i, skipped) ==
    ProdSeq([k \in 1..input_dim |->
                IF (k - 1) \in skipped THEN One ELSE Factor(points, i, k - 1)])

IsArray(m, r, c) == Len(m) = r /\ \A i \in 1..r : Len(m[i]) = c

\* C1 (separability): a returned qK(points) with the default skip and
\* points of the engine's dimensionality holds, at [0, i], variance times
\* the product over all dimensions of the 1-D factors of row i.
C1_Separability ==
    \A t \in Threads :
        (Returned(t, "qK") /\ ~skipArg[t].given /\ ValidPoints(t)) =>
            \A i \in 1..Rows(x2[t]) :
                ret[t][1][i] = Mul(variance, ProductExcept(x2[t], i, {}))

C1_Witness ==
    /\ Returned(1, "qK") /\ ~skipArg[1].given /\ ValidPoints(1)
    /\ input_dim = 2 /\ Rows(x2[1]) = 2 /\ x2[1][1] # x2[1][2]

\* C2 (gradient product rule): a returned dqK_dx(points) holds, at [d, i],
\* the 1-D gradient of dimension d times variance times the product of the
\* 1-D factors of every other dimension; for D = 1 that is the 1-D gradient
\* times variance.
C2_GradientProductRule ==
    \A t \in Threads :
        (Returned(t, "dqK_dx") /\ ValidPoints(t)) =>
            \A d \in 0..(input_dim - 1) : \A i \in 1..Rows(x2[t]) :
                /\ ret[t][d + 1][i] =
                      Mul(GradFactor(x2[t], i, d),
                          Mul(variance, ProductExcept(x2[t], i, {d})))
                /\ input_dim = 1 =>
                      ret[t][1][i] = Mul(GradFactor(x2[t], i, 0), variance)

C2_Witness ==
    /\ Returned(1, "dqK_dx") /\ ValidPoints(1)
    /\ input_dim = 2 /\ Rows(x2[1]) = 2

\* C3 (dimensionality mismatch fails fast): a call of qK or dqK_dx on the
\* Lebesgue engine whose points have another column count than the engine
\* has dimensions never returns a value.
C3_MismatchFailsFast ==
    \A t \in Threads :
        (cls = Lebesgue /\ pc[t] = "returned" /\ op[t] \in {"qK", "dqK_dx"}) =>
            ValidPoints(t)

\* C4 (skip consistency): of two returned calls on the same valid points,
\* qK(points, skip=[d]) and qK(points), the first times the 1-D factor of
\* dimension d equals the second, and the first is variance times the
\* product of the factors of every dimension except d.
C4_SkipConsistency ==
    \A t \in Threads : \A u \in Threads : \A d \in 0..(input_dim - 1) :
        (/\ Returned(t, "qK") /\ skipArg[t] = Some(<<d>>) /\ ValidPoints(t)
         /\ Returned(u, "qK") /\ ~skipArg[u].given /\ x2[u] = x2[t]) =>
            /\ imul(ret[t][1],
                    _qK_1d(col(x2[t], d), bounds[d + 1], lengthscales[d + 1]))
                  = ret[u][1]
            /\ \A i \in 1..Rows(x2[t]) :
                  ret[t][1][i] = Mul(variance, ProductExcept(x2[t], i, {d}))

C4_Witness ==
    /\ Returned(1, "qK") /\ skipArg[1] = Some(<<1>>) /\ ValidPoints(1)
    /\ Returned(2, "qK") /\ ~skipArg[2].given /\ x2[2] = x2[1]

\* C5 (transpose identity): of two returned calls on the same valid points,
\* Kq(points)[i, 0] is qK(points)[0, i] and dKq_dx(points)[i, d] is
\* dqK_dx(points)[d, i], entry for entry.
C5_TransposeIdentity ==
    \A t \in Threads : \A u \in Threads :
        /\ (/\ Returned(t, "Kq") /\ ValidPoints(t)
            /\ Returned(u, "qK") /\ ~skipArg[u].given /\ x2[u] = x2[t]) =>
               /\ Shape(ret[t]) = <<Cols(ret[u]), Rows(ret[u])>>
               /\ \A i \in 1..Rows(x2[t]) : ret[t][i][1] = ret[u][1][i]
        /\ (/\ Returned(t, "dKq_dx") /\ ValidPoints(t)
            /\ Returned(u, "dqK_dx") /\ x2[u] = x2[t]) =>
               /\ Shape(ret[t]) = <<Cols(ret[u]), Rows(ret[u])>>
               /\ \A i \in 1..Rows(x2[t]) : \A d \in 1..input_dim :
                     ret[t][i][d] = ret[u][d][i]

C5_Witness ==
    /\ Returned(1, "dKq_dx") /\ ValidPoints(1)
    /\ Returned(2, "dqK_dx") /\ x2[2] = x2[1]
    /\ Rows(x2[1]) >= 2 /\ input_dim >= 2

\* C6 (unimplemented operation): on the base class a call of qK, qKq or
\* dqK_dx is never running and never returned: it has raised
\* NotImplementedError; on the Lebesgue class no call raises it.
C6_NotImplemented ==
    \A t \in Threads :
        /\ (cls = Base /\ op[t] \in {"qK", "qKq", "dqK_dx"}) =>
              (pc[t] = "raised" /\ err[t] = "NotImplementedError")
        /\ cls = Lebesgue => err[t] # "NotImplementedError"

C6_Witness ==
    cls = Base /\ op[1] = "qKq" /\ pc[1] = "raised" /\ err[1] = "NotImplementedError"

\* C7 (double-integrated scalar): a returned qKq() is the scalar variance
\* times the product, seeded at 1, of the doubly integrated 1-D kernels of
\* the dimensions 0..input_dim-1; the call takes no points.
C7_DoubleIntegral ==
    \A t \in Threads :
        Returned(t, "qKq") =>
            /\ ret[t] \in Int \X Int
            /\ ret[t] = Mul(variance,
                            ProdSeq([k \in 1..input_dim |->
                                        _qKq_1d(bounds[k], lengthscales[k])]))
            /\ x2[t] = NoValue

C7_Witness == Returned(1, "qKq") /\ input_dim = 2

\* C8 (shape contract): on points of shape (N, D), D the engine's
\* dimensionality, a returned qK has shape (1, N) whatever the skip, Kq
\* (N, 1), dqK_dx (D, N) and dKq_dx (N, D).
C8_Shapes ==
    \A t \in Threads :
        (pc[t] = "returned" /\ op[t] # "qKq" /\ ValidPoints(t)) =>
            LET N == Rows(x2[t])
                D == Cols(x2[t])
            IN  CASE op[t] = "qK" -> IsArray(ret[t], 1, N)
                  [] op[t] = "Kq" -> IsArray(ret[t], N, 1)
                  [] op[t] = "dqK_dx" -> IsArray(ret[t], D, N)
                  [] op[t] = "dKq_dx" -> IsArray(ret[t], N, D)

C8_Witness ==
    /\ Returned(1, "qK") /\ ValidPoints(1) /\ input_dim = 2 /\ Rows(x2[1]) = 2
    /\ skipArg[1] = Some(AllDims(2))

\* C9 (no mutation): no step writes the engine's class, bounds, lengthscales
\* or variance, and from a call's entry to its return the caller's points
\* array and skip argument stay as passed.
C9_NoMutation ==
    [][/\ engine' = engine
       /\ \A t \in Threads :
             (pc[t] # "idle" /\ pc'[t] # "idle") =>
                 (x2'[t] = x2[t] /\ skipArg'[t] = skipArg[t])]_vars

C9_Witness ==
    /\ Returned(1, "qK") /\ skipArg[1] = Some(<<0>>) /\ Cols(x2[1]) = 2
    /\ cls = Lebesgue

\* C10 (concurrent calls): with the per-dimension steps of several calls on
\* one engine interleaved, a returned qK, qKq or dqK_dx holds the value the
\* same call returns when run alone.
C10_ConcurrentCalls ==
    \A t \in Threads :
        /\ Returned(t, "qK") => ret[t] = qK_alone(x2[t], skipArg[t])
        /\ Returned(t, "qKq") => ret[t] = qKq_alone
        /\ Returned(t, "dqK_dx") => ret[t] = dqK_dx_alone(x2[t])

C10_Witness ==
    /\ Returned(1, "dqK_dx")
    /\ pc[2] = "qK_loop" /\ op[2] = "qK" /\ dim[2] = 1
====
